---- MODULE Spec2Model ----
(***************************************************************************)
(* Model of house_for_sale_app.py: the cached load_data() cleaner, the     *)
(* recommend_houses() filter and the Streamlit script run around them.     *)
(*                                                                         *)
(* Text is a sequence of one-character strings.  A missing text cell       *)
(* (pandas NaN in an object column) is Null.  A numeric cell is a set:     *)
(* {} is NaN and {n} is the number n, so that every comparison with NaN    *)
(* is false, as in pandas.                                                 *)
(***************************************************************************)
EXTENDS Integers, Sequences, FiniteSets

VARIABLES
    source,       \* content of DATA_PATH as pd.read_csv sees it: [cols, rows]
    cache,        \* st.cache_data entry of load_data: [hit, value]
    df,           \* the table bound by "df = load_data()" in the latest run
    outcome,      \* how the latest run / call ended
    reparsed,     \* the latest load_data() call executed its body
    errorShown,   \* st.error was called in the latest run
    defaults,     \* lines 84-91: [set, bedroom, bathroom, size, price]
    session,      \* st.session_state['recommendations']: [set, rows]
    searched,     \* "Search Houses" was pressed in the latest run
    user_inputs,  \* the sidebar values, from which lines 138-147 build the dict
    top_n,        \* the top_n that recommend_houses is called with
    warned,       \* st.warning was called in the latest run
    shown,        \* rows rendered as property cards in the latest run
    tie,          \* how this build's quicksort orders equal keys
    arg,          \* argument of the helper under test (helper specifications)
    ret           \* its result

vars == <<source, cache, df, outcome, reparsed, errorShown, defaults, session,
          searched, user_inputs, top_n, warned, shown, tie, arg, ret>>

---------------------------------------------------------------------------
(* Bounds *)

MaxRows == 2
MaxTopN == 2
MaxRawRows == 2
MaxLen == 4
MaxTitle == 6

---------------------------------------------------------------------------
(* Values *)

Null == <<"<NA>">>

NaN == {}

None == {}

Any == <<"A", "n", "y">>

Min(a, b) == IF a < b THEN a ELSE b

required_columns ==
    {"type", "title", "location", "bedroom", "bathroom", "size_sqm",
     "price", "contact_person", "image_link"}

TextColumns == {"type", "title", "location", "contact_person", "image_link"}

NumericColumns == {"bedroom", "bathroom", "size_sqm", "price"}

Digit == [c \in {"0", "1", "2", "3", "4", "5", "6", "7", "8", "9"} |->
            CASE c = "0" -> 0 [] c = "1" -> 1 [] c = "2" -> 2 [] c = "3" -> 3
              [] c = "4" -> 4 [] c = "5" -> 5 [] c = "6" -> 6 [] c = "7" -> 7
              [] c = "8" -> 8 [] c = "9" -> 9]

Whitespace == {" "}

\* ord(c) of the characters the model uses; "U+00E9" stands for one
\* non-ASCII character
Ord(c) ==
    CASE c = " " -> 32 [] c = "," -> 44 [] c = "U+00E9" -> 233
      [] c \in DOMAIN Digit -> 48 + Digit[c]
      [] OTHER -> 97

---------------------------------------------------------------------------
(* Text helpers: str.split, str.strip, str.replace, astype(str), to_numeric *)

RECURSIVE Split(_, _)
Split(s, sep) ==
    IF \A i \in 1..Len(s) : s[i] # sep
    THEN <<s>>
    ELSE LET k == CHOOSE i \in 1..Len(s) :
                      s[i] = sep /\ \A j \in 1..(i - 1) : s[j] # sep
         IN  <<SubSeq(s, 1, k - 1)>> \o Split(SubSeq(s, k + 1, Len(s)), sep)

RECURSIVE Strip(_)
Strip(s) ==
    IF s = <<>> THEN s
    ELSE IF Head(s) \in Whitespace THEN Strip(Tail(s))
    ELSE IF s[Len(s)] \in Whitespace THEN Strip(SubSeq(s, 1, Len(s) - 1))
    ELSE s

RemoveCommas(s) == SelectSeq(s, LAMBDA c : c # ",")

AsStr(cell) == IF cell = Null THEN <<"n", "a", "n">> ELSE cell

RECURSIVE DecimalValue(_)
DecimalValue(s) ==
    IF s = <<>> THEN 0
    ELSE 10 * DecimalValue(SubSeq(s, 1, Len(s) - 1)) + Digit[s[Len(s)]]


\* faulty variant: an unparseable cell becomes 0 instead of NaN
ToNumeric_ZeroOnError(cell) ==
    IF cell # Null /\ cell # <<>> /\ \A i \in 1..Len(cell) : cell[i] \in DOMAIN Digit
    THEN {DecimalValue(cell)}
    ELSE {0}

ToNumeric(cell) ==
    IF cell # Null /\ cell # <<>> /\ \A i \in 1..Len(cell) : cell[i] \in DOMAIN Digit
    THEN {DecimalValue(cell)}
    ELSE NaN

RECURSIVE Digits(_)
Digits(n) ==
    IF n < 10 THEN <<CHOOSE c \in DOMAIN Digit : Digit[c] = n>>
    ELSE Digits(n \div 10) \o <<CHOOSE c \in DOMAIN Digit : Digit[c] = n % 10>>

RECURSIVE Grouped(_)
Grouped(ds) ==
    IF Len(ds) <= 3 THEN ds
    ELSE Grouped(SubSeq(ds, 1, Len(ds) - 3)) \o <<",">> \o SubSeq(ds, Len(ds) - 2, Len(ds))

FormatPrice(price) ==
    IF price # NaN
    THEN <<"E", "G", "P", " ">> \o Grouped(Digits(CHOOSE v \in price : TRUE))
    ELSE <<"-">>

---------------------------------------------------------------------------
(* load_data, lines 50-77 *)


\* faulty variant: any() instead of all()
HasRequiredColumns_Any(cols) == \E col \in required_columns : col \in cols

HasRequiredColumns(cols) == \A col \in required_columns : col \in cols


\* faulty variant: index -1 instead of -2
CityLambda_LastSegment(x) ==
    IF x # Null /\ \E i \in 1..Len(x) : x[i] = ","
    THEN LET parts == Split(x, ",") IN Strip(parts[Len(parts)])
    ELSE x

CityLambda(x) ==
    IF x # Null /\ \E i \in 1..Len(x) : x[i] = ","
    THEN LET parts == Split(x, ",") IN Strip(parts[Len(parts) - 1])
    ELSE x

CityColumn(cols, row) ==
    IF "City" \notin cols THEN CityLambda(row.location) ELSE row.City

is_gibberish(text) ==
    IF text = Null THEN "False"
    ELSE IF Len(text) = 0 THEN "ZeroDivisionError"
    ELSE IF 2 * Cardinality({i \in 1..Len(text) : Ord(text[i]) > 127}) > Len(text)
         THEN "True"
         ELSE "False"

\* pd.read_csv: the rows with their RangeIndex label
ReadCsv(src) == [i \in 1..Len(src.rows) |-> [src.rows[i] EXCEPT !.idx = i]]

\* lines 57-64, row by row
Coerce(cols, row) ==
    [idx             |-> row.idx,
     type            |-> row.type,
     title           |-> row.title,
     location        |-> row.location,
     bedroom         |-> ToNumeric(row.bedroom),
     bathroom        |-> ToNumeric(row.bathroom),
     size_sqm        |-> ToNumeric(row.size_sqm),
     price           |-> ToNumeric(RemoveCommas(AsStr(row.price))),
     contact_person  |-> row.contact_person,
     image_link      |-> row.image_link,
     City            |-> CityColumn(cols, row),
     phone_number    |-> AsStr(row.contact_person)]

\* line 65: dropna(subset=required_columns + ['phone_number'])
DropNaKeeps(row) ==
    /\ \A c \in TextColumns : row[c] # Null
    /\ \A c \in NumericColumns : row[c] # NaN
    /\ row.phone_number # Null

WithFormattedPrice(row) ==
    [idx |-> row.idx, type |-> row.type, title |-> row.title,
     location |-> row.location, bedroom |-> row.bedroom,
     bathroom |-> row.bathroom, size_sqm |-> row.size_sqm, price |-> row.price,
     contact_person |-> row.contact_person, image_link |-> row.image_link,
     City |-> row.City, phone_number |-> row.phone_number,
     formatted_price |-> FormatPrice(row.price)]

\* the body of load_data after the column check: [raised, table]
Clean(src) ==
    LET raw     == ReadCsv(src)
        coerced == [i \in 1..Len(raw) |-> Coerce(src.cols, raw[i])]
        dropped == SelectSeq(coerced, DropNaKeeps)
        raises  == \E i \in 1..Len(dropped) :
                       is_gibberish(dropped[i].title) = "ZeroDivisionError"
        kept    == SelectSeq(dropped, LAMBDA r : is_gibberish(r.title) # "True")
    IN  [raised |-> raises,
         table  |-> IF raises THEN <<>>
                    ELSE [i \in 1..Len(kept) |-> WithFormattedPrice(kept[i])]]

---------------------------------------------------------------------------
(* recommend_houses, lines 93-121 *)

Ge(cell, x) == \E v \in cell : v >= x

Le(cell, x) == \E v \in cell : v <= x


\* faulty variant: the price_max filter is missing
StrictFilter_NoPriceMax(df_data, ui) ==
    LET f0 == df_data
        f1 == IF ui.type # Any
              THEN SelectSeq(f0, LAMBDA r : r.type = ui.type) ELSE f0
        f2 == IF ui.location # Any
              THEN SelectSeq(f1, LAMBDA r : r.City = ui.location) ELSE f1
        f3 == IF ui.bedroom_min # None
              THEN SelectSeq(f2, LAMBDA r : \A m \in ui.bedroom_min : Ge(r.bedroom, m)) ELSE f2
        f4 == IF ui.bathroom_min # None
              THEN SelectSeq(f3, LAMBDA r : \A m \in ui.bathroom_min : Ge(r.bathroom, m)) ELSE f3
        f5 == IF ui.size_min # None
              THEN SelectSeq(f4, LAMBDA r : \A m \in ui.size_min : Ge(r.size_sqm, m)) ELSE f4
        f6 == IF ui.size_max # None
              THEN SelectSeq(f5, LAMBDA r : \A m \in ui.size_max : Le(r.size_sqm, m)) ELSE f5
        f7 == IF ui.price_min # None
              THEN SelectSeq(f6, LAMBDA r : \A m \in ui.price_min : Ge(r.price, m)) ELSE f6
    IN  f7

\* lines 94-110: each given constraint narrows filtered_df
StrictFilter(df_data, ui) ==
    LET f0 == df_data
        f1 == IF ui.type # Any
              THEN SelectSeq(f0, LAMBDA r : r.type = ui.type) ELSE f0
        f2 == IF ui.location # Any
              THEN SelectSeq(f1, LAMBDA r : r.City = ui.location) ELSE f1
        f3 == IF ui.bedroom_min # None
              THEN SelectSeq(f2, LAMBDA r : \A m \in ui.bedroom_min : Ge(r.bedroom, m)) ELSE f2
        f4 == IF ui.bathroom_min # None
              THEN SelectSeq(f3, LAMBDA r : \A m \in ui.bathroom_min : Ge(r.bathroom, m)) ELSE f3
        f5 == IF ui.size_min # None
              THEN SelectSeq(f4, LAMBDA r : \A m \in ui.size_min : Ge(r.size_sqm, m)) ELSE f4
        f6 == IF ui.size_max # None
              THEN SelectSeq(f5, LAMBDA r : \A m \in ui.size_max : Le(r.size_sqm, m)) ELSE f5
        f7 == IF ui.price_min # None
              THEN SelectSeq(f6, LAMBDA r : \A m \in ui.price_min : Ge(r.price, m)) ELSE f6
        f8 == IF ui.price_max # None
              THEN SelectSeq(f7, LAMBDA r : \A m \in ui.price_max : Le(r.price, m)) ELSE f7
    IN  f8


\* faulty variant: the relaxed path forgets the city
RelaxedFilter_NoCity(df_data, ui) ==
    IF ui.type # Any
    THEN SelectSeq(df_data, LAMBDA r : r.type = ui.type) ELSE df_data

\* lines 114-118: only type and city narrow relaxed_df
RelaxedFilter(df_data, ui) ==
    LET r0 == df_data
        r1 == IF ui.type # Any
              THEN SelectSeq(r0, LAMBDA r : r.type = ui.type) ELSE r0
        r2 == IF ui.location # Any
              THEN SelectSeq(r1, LAMBDA r : r.City = ui.location) ELSE r1
    IN  r2

\* the order sort_values(by='price') gives two rows: ascending price, NaN
\* last, equal prices as this build's quicksort leaves them
Before(a, b, t) ==
    \/ a.price # NaN /\ b.price = NaN
    \/ \E x \in a.price : \E y \in b.price : x < y
    \/ a.price = b.price /\ t[a.idx] < t[b.idx]

RECURSIVE SortValues(_, _)
SortValues(rows, t) ==
    IF rows = <<>> THEN <<>>
    ELSE LET first == CHOOSE i \in 1..Len(rows) :
                          \A j \in 1..Len(rows) : j # i => Before(rows[i], rows[j], t)
             rest  == [j \in 1..(Len(rows) - 1) |->
                          IF j < first THEN rows[j] ELSE rows[j + 1]]
         IN  <<rows[first]>> \o SortValues(rest, t)

HeadRows(rows, n) == SubSeq(rows, 1, Min(n, Len(rows)))


\* faulty variant: an empty relaxed set falls back to the whole table
recommend_houses_FallbackAll(df_data, ui, n, t) ==
    LET filtered_df == StrictFilter(df_data, ui)
        relaxed_df  == RelaxedFilter(df_data, ui)
    IN  IF filtered_df = <<>>
        THEN [result |-> HeadRows(SortValues(IF relaxed_df = <<>> THEN df_data ELSE relaxed_df, t), n),
              warned |-> TRUE,
              table  |-> df_data]
        ELSE [result |-> HeadRows(SortValues(filtered_df, t), n),
              warned |-> FALSE,
              table  |-> df_data]

\* faulty variant: the filters narrow df_data itself instead of a copy
recommend_houses_InPlace(df_data, ui, n, t) ==
    LET filtered_df == StrictFilter(df_data, ui)
        relaxed_df  == RelaxedFilter(df_data, ui)
    IN  IF filtered_df = <<>>
        THEN [result |-> HeadRows(SortValues(relaxed_df, t), n),
              warned |-> TRUE,
              table  |-> relaxed_df]
        ELSE [result |-> HeadRows(SortValues(filtered_df, t), n),
              warned |-> FALSE,
              table  |-> filtered_df]

\* [result, warned, table]: the returned frame, whether st.warning was
\* called, and df_data as the call leaves it
recommend_houses(df_data, ui, n, t) ==
    LET filtered_df == StrictFilter(df_data, ui)
        relaxed_df  == RelaxedFilter(df_data, ui)
    IN  IF filtered_df = <<>>
        THEN [result |-> HeadRows(SortValues(relaxed_df, t), n),
              warned |-> TRUE,
              table  |-> df_data]
        ELSE [result |-> HeadRows(SortValues(filtered_df, t), n),
              warned |-> FALSE,
              table  |-> df_data]

---------------------------------------------------------------------------
(* The cached call load_data(), lines 49-55 and 77 *)

NoCache == [hit |-> FALSE, value |-> <<>>]


\* faulty variant: no memoisation, the body runs on every call
LoadData_NoMemo(src, c) ==
    IF ~HasRequiredColumns(src.cols)
    THEN [status |-> "stopped", table |-> <<>>, cache |-> c,
          reparsed |-> TRUE, error |-> TRUE]
    ELSE LET cleaned == Clean(src)
         IN  IF cleaned.raised
             THEN [status |-> "raised", table |-> <<>>, cache |-> c,
                   reparsed |-> TRUE, error |-> FALSE]
             ELSE [status |-> "ok", table |-> cleaned.table,
                   cache |-> [hit |-> TRUE, value |-> cleaned.table],
                   reparsed |-> TRUE, error |-> FALSE]

\* [status, table, cache, reparsed, error]
LoadData(src, c) ==
    IF c.hit
    THEN [status |-> "ok", table |-> c.value, cache |-> c,
          reparsed |-> FALSE, error |-> FALSE]
    ELSE IF ~HasRequiredColumns(src.cols)
    THEN [status |-> "stopped", table |-> <<>>, cache |-> c,
          reparsed |-> TRUE, error |-> TRUE]
    ELSE LET cleaned == Clean(src)
         IN  IF cleaned.raised
             THEN [status |-> "raised", table |-> <<>>, cache |-> c,
                   reparsed |-> TRUE, error |-> FALSE]
             ELSE [status |-> "ok", table |-> cleaned.table,
                   cache |-> [hit |-> TRUE, value |-> cleaned.table],
                   reparsed |-> TRUE, error |-> FALSE]

---------------------------------------------------------------------------
(* Module level of the script, lines 79-91 and 126-192 *)

NoDefaults == [set |-> FALSE, bedroom |-> <<0, 0>>, bathroom |-> <<0, 0>>,
               size |-> <<0, 0>>, price |-> <<0, 0>>]

NoSession == [set |-> FALSE, rows |-> <<>>]

ColumnValues(table, col) == UNION {table[i][col] : i \in 1..Len(table)}

MinOf(S) == CHOOSE x \in S : \A y \in S : x <= y

MaxOf(S) == CHOOSE x \in S : \A y \in S : x >= y

\* lines 84-91; int(nan) raises on an empty table
DefaultsRaise(table) == table = <<>>

Defaults(table) ==
    [set      |-> TRUE,
     bedroom  |-> <<MinOf(ColumnValues(table, "bedroom")), MaxOf(ColumnValues(table, "bedroom"))>>,
     bathroom |-> <<MinOf(ColumnValues(table, "bathroom")), MaxOf(ColumnValues(table, "bathroom"))>>,
     size     |-> <<MinOf(ColumnValues(table, "size_sqm")), MaxOf(ColumnValues(table, "size_sqm"))>>,
     price    |-> <<MinOf(ColumnValues(table, "price")), MaxOf(ColumnValues(table, "price"))>>]

\* lines 173-192: the rows shown as cards
Render(sess) == IF sess.set /\ sess.rows # <<>> THEN sess.rows ELSE <<>>

---------------------------------------------------------------------------
(* Inputs of the model *)

Listing(type, title, location, bedroom, bathroom, size_sqm, price) ==
    [idx |-> 0, type |-> type, title |-> title, location |-> location,
     bedroom |-> bedroom, bathroom |-> bathroom, size_sqm |-> size_sqm,
     price |-> price, contact_person |-> <<"2", "0", "1">>,
     image_link |-> <<"u">>, City |-> Null]

Flat == <<"F">>

Villa == <<"V">>

\* two flats in C at the same price, a villa in G, and a row that the
\* cleaning drops
AppRows ==
    { Listing(Flat,  <<"a", "b">>, <<"M", ",", " ", "C", ",", " ", "E">>, <<"1">>, <<"1">>, <<"5", "0">>, <<"1", "0">>),
      Listing(Flat,  <<"a", "b">>, <<"C", ",", "E">>, <<"2">>, <<"2">>, <<"9", "0">>, <<"1", ",", "0">>),
      Listing(Villa, <<"a", "b">>, <<"G", ",", "E">>, <<"2">>, <<"2">>, <<"9", "0">>, <<"2", "0">>),
      Listing(Flat,  <<"a", "b">>, <<"C", ",", "E">>, <<"2">>, <<"2">>, <<"9", "0">>, <<"x">>) }

SeqsUpTo(S, n) == UNION {[1..k -> S] : k \in 0..n}

\* files with every required column, and files that lack one of them
AppSources ==
    [cols : {required_columns}, rows : SeqsUpTo(AppRows, MaxRows)]
    \cup [cols : {required_columns \ {c} : c \in required_columns},
          rows : SeqsUpTo(AppRows, 1)]

Ties == {t \in [1..MaxRows -> 1..MaxRows] : \A i, j \in 1..MaxRows : t[i] = t[j] => i = j}

NoInputs == [type |-> Any, location |-> Any, bedroom_min |-> None,
             bathroom_min |-> None, size_min |-> None, size_max |-> None,
             price_min |-> None, price_max |-> None]

Thresholds ==
    [bedroom_min |-> {2}, bathroom_min |-> {2}, size_min |-> {60},
     size_max |-> {60}, price_min |-> {15}, price_max |-> {15}]

\* type and city each 'Any' or a value; none, one or all of the six numeric
\* constraints given
UserInputs ==
    {[type |-> ty, location |-> lo,
      bedroom_min  |-> IF "bedroom_min"  \in given THEN Thresholds.bedroom_min  ELSE None,
      bathroom_min |-> IF "bathroom_min" \in given THEN Thresholds.bathroom_min ELSE None,
      size_min     |-> IF "size_min"     \in given THEN Thresholds.size_min     ELSE None,
      size_max     |-> IF "size_max"     \in given THEN Thresholds.size_max     ELSE None,
      price_min    |-> IF "price_min"    \in given THEN Thresholds.price_min    ELSE None,
      price_max    |-> IF "price_max"    \in given THEN Thresholds.price_max    ELSE None] :
        ty \in {Any, Flat}, lo \in {Any, <<"C">>},
        given \in {g \in SUBSET DOMAIN Thresholds :
                       Cardinality(g) <= 1 \/ g = DOMAIN Thresholds}}

\* the app passes the default top_n=5, which on a table of at most MaxRows
\* rows selects what top_n = MaxRows selects
TopNs == 1..MaxTopN

---------------------------------------------------------------------------
(* The app: one action per script run.  A session searches with one set of *)
(* sidebar values and one top_n: its first search picks them and the later *)
(* ones repeat them.  The file at DATA_PATH is not edited here (see        *)
(* SpecLoad for that).                                                     *)

Init ==
    /\ source \in AppSources
    /\ tie \in Ties
    /\ user_inputs = NoInputs
    /\ top_n = 0
    /\ cache = NoCache
    /\ df = <<>>
    /\ outcome = "none"
    /\ reparsed = FALSE
    /\ errorShown = FALSE
    /\ defaults = NoDefaults
    /\ session = NoSession
    /\ searched = FALSE
    /\ warned = FALSE
    /\ shown = <<>>
    /\ arg = <<>>
    /\ ret = "none"

\* st.stop() at line 55: nothing after load_data() runs
RunStopped ==
    LET ld == LoadData(source, cache)
    IN  /\ ld.status = "stopped"
        /\ cache' = ld.cache
        /\ reparsed' = ld.reparsed
        /\ errorShown' = ld.error
        /\ outcome' = "stopped"
        /\ df' = <<>>
        /\ defaults' = NoDefaults
        /\ searched' = FALSE
        /\ warned' = FALSE
        /\ shown' = <<>>
        /\ UNCHANGED <<source, session, tie, user_inputs, top_n, arg, ret>>

\* an exception ends the run: ZeroDivisionError in load_data, or ValueError
\* at line 84 on an empty table
RunError ==
    LET ld == LoadData(source, cache)
    IN  /\ ld.status = "raised" \/ (ld.status = "ok" /\ DefaultsRaise(ld.table))
        /\ cache' = ld.cache
        /\ reparsed' = ld.reparsed
        /\ errorShown' = ld.error
        /\ outcome' = "error"
        /\ df' = ld.table
        /\ defaults' = NoDefaults
        /\ searched' = FALSE
        /\ warned' = FALSE
        /\ shown' = <<>>
        /\ UNCHANGED <<source, session, tie, user_inputs, top_n, arg, ret>>

\* a run in which "Search Houses" is not pressed
RunIdle ==
    LET ld == LoadData(source, cache)
    IN  /\ ld.status = "ok" /\ ~DefaultsRaise(ld.table)
        /\ cache' = ld.cache
        /\ reparsed' = ld.reparsed
        /\ errorShown' = ld.error
        /\ outcome' = "ok"
        /\ df' = ld.table
        /\ defaults' = Defaults(ld.table)
        /\ searched' = FALSE
        /\ warned' = FALSE
        /\ shown' = Render(session)
        /\ UNCHANGED <<source, session, tie, user_inputs, top_n, arg, ret>>

\* a run in which "Search Houses" is pressed, lines 137-148
RunSearch(ui, n) ==
    LET ld == LoadData(source, cache)
        r  == recommend_houses(ld.table, ui, n, tie)
    IN  /\ session.set => (ui = user_inputs /\ n = top_n)
        /\ ld.status = "ok" /\ ~DefaultsRaise(ld.table)
        /\ cache' = ld.cache
        /\ reparsed' = ld.reparsed
        /\ errorShown' = ld.error
        /\ outcome' = "ok"
        /\ df' = r.table
        /\ defaults' = Defaults(ld.table)
        /\ searched' = TRUE
        /\ warned' = r.warned
        /\ session' = [set |-> TRUE, rows |-> r.result]
        /\ shown' = Render(session')
        /\ user_inputs' = ui
        /\ top_n' = n
        /\ UNCHANGED <<source, tie, arg, ret>>

Next ==
    \/ RunStopped
    \/ RunError
    \/ RunIdle
    \/ \E ui \in UserInputs, n \in TopNs : RunSearch(ui, n)

Spec == Init /\ [][Next]_vars

---------------------------------------------------------------------------
(* load_data() called on a file that is edited between calls *)

BaseRow ==
    Listing(Flat, <<"a", "b">>, <<"M", ",", " ", "C", ",", " ", "E">>,
            <<"2">>, <<"2">>, <<"9", "0">>, <<"1", ",", "0">>)

\* the base row, and the base row with one cell missing, unparseable or
\* garbled
RawRows ==
    { BaseRow,
      [BaseRow EXCEPT !.City = <<"Z">>],
      [BaseRow EXCEPT !.type = Null],
      [BaseRow EXCEPT !.title = Null],
      [BaseRow EXCEPT !.title = <<"U+00E9", "U+00E9", "a">>],
      [BaseRow EXCEPT !.title = <<"U+00E9", "a">>],
      [BaseRow EXCEPT !.location = Null],
      [BaseRow EXCEPT !.bedroom = <<"x">>],
      [BaseRow EXCEPT !.bathroom = Null],
      [BaseRow EXCEPT !.size_sqm = <<"9", ",", "0">>],
      [BaseRow EXCEPT !.price = <<"x">>],
      [BaseRow EXCEPT !.price = Null],
      [BaseRow EXCEPT !.contact_person = Null],
      [BaseRow EXCEPT !.image_link = Null] }

LoadSources ==
    [cols : {required_columns, required_columns \cup {"City"},
             required_columns \ {"price"}, required_columns \ {"title"}},
     rows : SeqsUpTo(RawRows, MaxRawRows)]

EditedSources ==
    [cols : {required_columns, required_columns \ {"price"}},
     rows : SeqsUpTo({BaseRow, [BaseRow EXCEPT !.price = <<"x">>]}, 1)]

InitLoad ==
    /\ source \in LoadSources
    /\ tie = [i \in 1..MaxRows |-> i]
    /\ user_inputs = NoInputs
    /\ top_n = 0
    /\ cache = NoCache
    /\ df = <<>>
    /\ outcome = "none"
    /\ reparsed = FALSE
    /\ errorShown = FALSE
    /\ defaults = NoDefaults
    /\ session = NoSession
    /\ searched = FALSE
    /\ warned = FALSE
    /\ shown = <<>>
    /\ arg = <<>>
    /\ ret = "none"

CallLoadData ==
    LET ld == LoadData(source, cache)
    IN  /\ cache' = ld.cache
        /\ df' = ld.table
        /\ outcome' = ld.status
        /\ reparsed' = ld.reparsed
        /\ errorShown' = ld.error
        /\ UNCHANGED <<source, defaults, session, searched, user_inputs, top_n,
                       warned, shown, tie, arg, ret>>

\* the file at DATA_PATH is overwritten
ChangeSource(s) ==
    /\ s # source
    /\ source' = s
    /\ UNCHANGED <<cache, df, outcome, reparsed, errorShown, defaults, session,
                   searched, user_inputs, top_n, warned, shown, tie, arg, ret>>

NextLoad ==
    \/ CallLoadData
    \/ \E s \in EditedSources : ChangeSource(s)

SpecLoad == InitLoad /\ [][NextLoad]_vars

---------------------------------------------------------------------------
(* The two text helpers of load_data applied to arbitrary short texts *)

Texts(alphabet, n) == SeqsUpTo(alphabet, n)

InitCity ==
    /\ arg \in [cols : {required_columns, required_columns \cup {"City"}},
                City : {Null, <<"Z">>},
                location : Texts({"a", ",", " "}, MaxLen) \cup {Null}]
    /\ ret = <<"unset">>
    /\ source = [cols |-> required_columns, rows |-> <<>>]
    /\ tie = [i \in 1..MaxRows |-> i]
    /\ user_inputs = NoInputs
    /\ top_n = 0
    /\ cache = NoCache
    /\ df = <<>>
    /\ outcome = "none"
    /\ reparsed = FALSE
    /\ errorShown = FALSE
    /\ defaults = NoDefaults
    /\ session = NoSession
    /\ searched = FALSE
    /\ warned = FALSE
    /\ shown = <<>>

\* line 61-62 on one row
ApplyCity ==
    /\ outcome = "none"
    /\ ret' = CityColumn(arg.cols, [BaseRow EXCEPT !.location = arg.location, !.City = arg.City])
    /\ outcome' = "applied"
    /\ UNCHANGED <<source, cache, df, reparsed, errorShown, defaults, session,
                   searched, user_inputs, top_n, warned, shown, tie, arg>>

SpecCity == InitCity /\ [][ApplyCity]_vars

InitGibberish ==
    /\ arg \in Texts({"a", "U+00E9"}, MaxTitle)
    /\ ret = "unset"
    /\ source = [cols |-> required_columns, rows |-> <<>>]
    /\ tie = [i \in 1..MaxRows |-> i]
    /\ user_inputs = NoInputs
    /\ top_n = 0
    /\ cache = NoCache
    /\ df = <<>>
    /\ outcome = "none"
    /\ reparsed = FALSE
    /\ errorShown = FALSE
    /\ defaults = NoDefaults
    /\ session = NoSession
    /\ searched = FALSE
    /\ warned = FALSE
    /\ shown = <<>>

\* lines 68-71 on one title
ApplyGibberish ==
    /\ outcome = "none"
    /\ ret' = is_gibberish(arg)
    /\ outcome' = "applied"
    /\ UNCHANGED <<source, cache, df, reparsed, errorShown, defaults, session,
                   searched, user_inputs, top_n, warned, shown, tie, arg>>

SpecGibberish == InitGibberish /\ [][ApplyGibberish]_vars

---------------------------------------------------------------------------
(* Properties of recommend_houses, checked under Spec *)

\* the cleaned table that the run passed to recommend_houses
Table == cache.value

Rows(seq) == {seq[i] : i \in 1..Len(seq)}

Price(row) == CHOOSE v \in row.price : TRUE

\* a row passes every constraint that is given
SatisfiesTypeCity(row, ui) ==
    /\ ui.type = Any \/ row.type = ui.type
    /\ ui.location = Any \/ row.City = ui.location

SatisfiesAll(row, ui) ==
    /\ SatisfiesTypeCity(row, ui)
    /\ \A m \in ui.bedroom_min : \E v \in row.bedroom : v >= m
    /\ \A m \in ui.bathroom_min : \E v \in row.bathroom : v >= m
    /\ \A m \in ui.size_min : \E v \in row.size_sqm : v >= m
    /\ \A m \in ui.size_max : \E v \in row.size_sqm : v <= m
    /\ \A m \in ui.price_min : \E v \in row.price : v >= m
    /\ \A m \in ui.price_max : \E v \in row.price : v <= m

StrictSet == {row \in Rows(Table) : SatisfiesAll(row, user_inputs)}

RelaxedSet == {row \in Rows(Table) : SatisfiesTypeCity(row, user_inputs)}

\* res is the first n rows, by ascending price, of the rows in cand
FirstByPrice(res, cand, n) ==
    /\ Len(res) = Min(n, Cardinality(cand))
    /\ \A k \in 1..Len(res) : res[k] \in cand
    /\ \A j, k \in 1..Len(res) : j # k => res[j].idx # res[k].idx
    /\ \A k \in 1..(Len(res) - 1) : Price(res[k]) <= Price(res[k + 1])
    /\ \A c \in cand \ Rows(res) : \A k \in 1..Len(res) : Price(res[k]) <= Price(c)

\* C1: when some row satisfies every given constraint, the result is the
\* first top_n rows by ascending price of the rows that satisfy them all:
\* every returned row satisfies them, there are at most top_n, and no
\* matching row cheaper than a returned one is left out.
C1_StrictResult ==
    (searched /\ StrictSet # {}) => FirstByPrice(session.rows, StrictSet, top_n)

\* a strict search returned two rows in the order opposite to the table's
C1_Witness ==
    /\ searched /\ ~warned /\ Len(session.rows) = 2
    /\ session.rows[1].idx > session.rows[2].idx
    /\ Price(session.rows[1]) < Price(session.rows[2])

\* C2: when no row satisfies every constraint but some row has the type and
\* city, the result is the first top_n rows by ascending price of the rows
\* with the type and city, and the warning is shown; the warning is never
\* shown when some row satisfies every constraint.
C2_RelaxedResult ==
    /\ (searched /\ StrictSet = {} /\ RelaxedSet # {})
           => (warned /\ FirstByPrice(session.rows, RelaxedSet, top_n))
    /\ (searched /\ StrictSet # {}) => ~warned

\* the relaxed path returned a row although the city filter removed another
C2_Witness ==
    /\ searched /\ warned /\ session.rows # <<>>
    /\ StrictSet = {}
    /\ user_inputs.location # Any
    /\ Cardinality(RelaxedSet) < Len(Table)

\* C3: when no row has even the type and city, the result is empty, the
\* warning is shown, the run ends without an error and no card is rendered.
C3_NoMatch ==
    (searched /\ RelaxedSet = {})
        => /\ session = [set |-> TRUE, rows |-> <<>>]
           /\ warned
           /\ outcome = "ok"
           /\ shown = <<>>

\* a search on a non-empty table found nothing even by type and city
C3_Witness == searched /\ RelaxedSet = {} /\ Len(Table) = MaxRows

\* the rows among which the call chose
Candidates == IF StrictSet # {} THEN StrictSet ELSE RelaxedSet

\* C7: returned rows of equal price keep the table's order, and of a group
\* of equal-price rows cut by top_n the earliest in the table are kept.
C7_StableTies ==
    searched =>
        /\ \A j, k \in 1..Len(session.rows) :
               (j < k /\ Price(session.rows[j]) = Price(session.rows[k]))
                   => session.rows[j].idx < session.rows[k].idx
        /\ \A c \in Candidates \ Rows(session.rows) : \A k \in 1..Len(session.rows) :
               Price(session.rows[k]) = Price(c) => session.rows[k].idx < c.idx

C5_SchemaErrorStops ==
    (outcome # "none" /\ required_columns \ source.cols # {})
        => /\ outcome = "stopped"
           /\ errorShown
           /\ df = <<>>
           /\ ~cache.hit
           /\ ~defaults.set
           /\ ~searched
           /\ ~session.set
           /\ shown = <<>>

\* a run stopped on a file with rows but without the price column
C5_Witness ==
    /\ outcome = "stopped" /\ errorShown
    /\ "price" \notin source.cols
    /\ source.rows # <<>>

---------------------------------------------------------------------------
(* Properties of load_data, checked under SpecLoad *)

IsNumberText(cell) ==
    /\ cell # Null
    /\ Len(cell) >= 1
    /\ \A i \in 1..Len(cell) : cell[i] \in {"0", "1", "2", "3", "4", "5", "6", "7", "8", "9"}

WithoutSeparators(cell) ==
    IF cell = Null THEN Null
    ELSE [i \in 1..Cardinality({j \in 1..Len(cell) : cell[j] # ","}) |->
             cell[CHOOSE j \in 1..Len(cell) :
                     /\ cell[j] # ","
                     /\ Cardinality({h \in 1..j : cell[h] # ","}) = i]]

\* a raw row with a missing or unparseable value in a required column
BadRaw(raw) ==
    \/ \E c \in {"type", "title", "location", "contact_person", "image_link"} : raw[c] = Null
    \/ \E c \in {"bedroom", "bathroom", "size_sqm"} : ~IsNumberText(raw[c])
    \/ ~IsNumberText(WithoutSeparators(raw.price))

IsNumber(cell) == Cardinality(cell) = 1 /\ \A v \in cell : v \in Nat

CleanedFrom(src, table) ==
    /\ \A k \in 1..Len(table) :
           /\ \A c \in {"type", "title", "location", "contact_person", "image_link"} :
                  table[k][c] # Null
           /\ \A c \in {"bedroom", "bathroom", "size_sqm", "price"} :
                  IsNumber(table[k][c])
    /\ \A i \in 1..Len(src.rows) :
           BadRaw(src.rows[i]) => \A k \in 1..Len(table) : table[k].idx # i

\* C4: a call of load_data that reads a file with every required column
\* returns a table in which every row has a non-null type, title, location,
\* contact_person and image_link and a number in bedroom, bathroom, size_sqm
\* and price, and in which no row of the file with a missing or unparseable
\* value in one of these columns appears.
C4_CleanedRows ==
    [][(source' = source /\ reparsed' /\ outcome' = "ok") => CleanedFrom(source, df')]_vars

\* of a file of two rows the first, with a bad cell, was dropped and the
\* second kept
C4_Witness ==
    /\ reparsed /\ outcome = "ok"
    /\ Len(source.rows) = 2 /\ BadRaw(source.rows[1])
    /\ Len(df) = 1 /\ df[1].idx = 2

\* C10 as stated: every call that returns a table while the file has every
\* required column returns the cleaning of the file's current content.
C10_ReloadsOnChange ==
    [][(source' = source /\ outcome' = "ok" /\ HasRequiredColumns(source.cols))
           => df' = Clean(source).table]_vars

\* C10 as amended: once a table is cached, every later call returns it
\* without running the body, whatever the file holds then, and the entry is
\* never replaced; the entry is the cleaning of the content the file had when
\* the body ran.
C10_CachedForGood ==
    [][ /\ cache.hit =>
              /\ cache' = cache
              /\ source' = source => (outcome' = "ok" /\ df' = cache.value /\ ~reparsed')
        /\ (~cache.hit /\ cache'.hit) =>
              /\ reparsed' /\ source' = source
              /\ cache'.value = Clean(source).table
              /\ df' = cache'.value ]_vars

\* a call answered from the cache with a table that is not the cleaning of
\* the file's current content
C10_Witness ==
    /\ cache.hit /\ ~reparsed /\ outcome = "ok"
    /\ df = cache.value
    /\ HasRequiredColumns(source.cols)
    /\ df # Clean(source).table

---------------------------------------------------------------------------
(* Properties of the text helpers *)

SegmentBeforeLastComma(x) ==
    LET commas == {i \in 1..Len(x) : x[i] = ","}
        last   == CHOOSE i \in commas : \A j \in commas : j <= i
        prev   == IF commas = {last} THEN 0
                  ELSE CHOOSE i \in commas \ {last} : \A j \in commas \ {last} : j <= i
    IN  SubSeq(x, prev + 1, last - 1)

\* t is s without its leading and trailing spaces
IsTrimOf(t, s) ==
    /\ t = <<>> \/ (t[1] # " " /\ t[Len(t)] # " ")
    /\ \E a \in 0..Len(s) :
           /\ a + Len(t) <= Len(s)
           /\ SubSeq(s, a + 1, a + Len(t)) = t
           /\ \A i \in (1..a) \cup ((a + Len(t) + 1)..Len(s)) : s[i] = " "

\* C9: without a City column in the file, the city of a location with a
\* comma is its second-to-last comma-separated segment, trimmed, and the city
\* of a location without a comma is the location; with a City column the
\* column's value is left as it is.
C9_CityDerivation ==
    outcome = "applied" =>
        IF "City" \in arg.cols THEN ret = arg.City
        ELSE IF arg.location = Null \/ \A i \in 1..Len(arg.location) : arg.location[i] # ","
        THEN ret = arg.location
        ELSE IsTrimOf(ret, SegmentBeforeLastComma(arg.location))

\* a location of three segments whose middle segment lost a space
C9_Witness ==
    /\ outcome = "applied" /\ "City" \notin arg.cols /\ arg.location # Null
    /\ Cardinality({i \in 1..Len(arg.location) : arg.location[i] = ","}) = 2
    /\ ret # <<>>
    /\ Len(ret) < Len(SegmentBeforeLastComma(arg.location))

====
